---- MODULE Spec2Model ----
(***************************************************************************)
(* tempMail (src/main.go): an SMTP ingestion handler, an HTTP retrieval    *)
(* handler and a daily purge, all sharing the map mailBox under the        *)
(* sync.RWMutex mu.                                                        *)
(*                                                                         *)
(* Strings that the code converts (addresses, map keys) are sequences of   *)
(* one-character strings, so that formatting and trimming are computed.    *)
(* A Go slice is a header [arr, len, cap] into a backing array of the      *)
(* heap: mails[:i] and append share the array as they do in Go.            *)
(***************************************************************************)
EXTENDS Integers, Sequences, FiniteSets, TLC

(* ------------------------------ bounds --------------------------------- *)
\* SMTP sessions handled over a run
MaxAppends == 2
\* GET /getMail requests served over a run
MaxGets == 3
\* GET /getMail requests served over a run of the concurrent store
\* specification
StoreGets == 2
\* calls of the purge task over a run of the store specifications
MaxClears == 1
\* SMTP sessions and GET requests over a run of the specification that
\* starts at main
BootAppends == 1
BootGets == 1
\* SMTP sessions and GET requests over a run of the fair store specification
LiveAppends == 1
LiveGets == 2
\* goroutines serving SMTP sessions at the same time
NumHandlers == 2
\* goroutines serving HTTP requests at the same time
NumGetters == 2
\* clock ticks in a calendar day (the resolution of the scheduler's time)
DayLen == 3
\* calendar days the timed specification runs for
MaxDays == 3

\* execution contexts: SMTP session goroutines, HTTP request goroutines and
\* the goroutine of scheduleDailyMidnightTask
Handlers == {<<"smtp", i>> : i \in 1..NumHandlers}
Getters == {<<"http", i>> : i \in 1..NumGetters}
Sched == <<"sched", 1>>
NoProc == <<"none", 1>>

(* ------------------------------ inputs --------------------------------- *)
Locals == {<<"a">>}
Domains == {<<"x">>, <<"y">>}
\* envelope addresses (net/mail.Address with an empty Name)
Recipients == [local : Locals, domain : Domains]
Senders == {[local |-> <<"s">>, domain |-> <<"z">>]}
Subjects == {"Welcome"}
TextBodies == {"text"}
HtmlBodies == {"html"}
\* ALLOWED_DOMAINS=x
EnvAllowedDomains == <<<<"x">>>>
\* the text of ALLOWED_DOMAINS that gives EnvAllowedDomains
RunEnv == <<"x">>
\* the texts of ALLOWED_DOMAINS a start of the process is tried with: unset
\* or empty (os.Getenv gives "" for both), one domain, two domains, an
\* empty first element, an empty last element
Envs == {<<>>, <<"x">>, <<"x", ",", "y">>, <<",", "x">>, <<"x", ",">>}

(* ------------------------- strings and slices -------------------------- *)
\* net/mail (*Address).String() of an address without display name
AddrString(a) == <<"<">> \o a.local \o <<"@">> \o a.domain \o <<">">>

RECURSIVE TrimLeft(_, _)
TrimLeft(s, cutset) ==
    IF s # <<>> /\ Head(s) \in cutset THEN TrimLeft(Tail(s), cutset) ELSE s

RECURSIVE TrimRight(_, _)
TrimRight(s, cutset) ==
    IF s # <<>> /\ s[Len(s)] \in cutset
    THEN TrimRight(SubSeq(s, 1, Len(s) - 1), cutset)
    ELSE s

\* strings.Trim(s, cutset)
Trim(s, cutset) == TrimRight(TrimLeft(s, cutset), cutset)

\* strings.Split(s, sep) for a one-character sep: the pieces between the
\* separators, one more than there are separators
RECURSIVE Split(_, _)
Split(s, sep) ==
    LET i == CHOOSE j \in 1..(Len(s) + 1) :
                 /\ j = Len(s) + 1 \/ s[j] = sep
                 /\ \A k \in 1..(j - 1) : s[k] # sep
    IN  IF i = Len(s) + 1 THEN <<s>>
        ELSE <<SubSeq(s, 1, i - 1)>> \o Split(SubSeq(s, i + 1, Len(s)), sep)

\* the path parameters the model's clients ask for: every local part and
\* every full address
FullAddr(a) == a.local \o <<"@">> \o a.domain
GetKeys == Locals \cup {FullAddr(a) : a \in Recipients}

\* the zero value of mailContent
ZeroMail == [from |-> <<>>, to |-> <<>>, title |-> "", TextContent |-> "",
             HtmlContent |-> "", receivedAt |-> 0]

NoMail == [none |-> TRUE]
NoSlice == [nil |-> TRUE]

\* capacity of a freshly made mailbox slice
InitialCap == 10

\* make([]mailContent, 1, c): a slice that starts with one zero record
MakeSliceLenOne(h, c) ==
    [heap  |-> Append(h, [i \in 1..c |-> ZeroMail]),
     slice |-> [arr |-> Len(h) + 1, len |-> 1, cap |-> c]]

\* a make that hands out the first backing array again instead of a new one
MakeSliceSharesArray(h, c) ==
    IF h = <<>>
    THEN [heap  |-> Append(h, [i \in 1..c |-> ZeroMail]),
          slice |-> [arr |-> 1, len |-> 0, cap |-> c]]
    ELSE [heap  |-> h, slice |-> [arr |-> 1, len |-> 0, cap |-> c]]

\* make([]mailContent, 0, c) on heap h: the new heap and the slice header
MakeSlice(h, c) ==
    [heap  |-> Append(h, [i \in 1..c |-> ZeroMail]),
     slice |-> [arr |-> Len(h) + 1, len |-> 0, cap |-> c]]

\* unsafe.Sizeof(mailContent{}) on a 64-bit build: five strings of 16 bytes
\* and a time.Time of 24
ElemSize == 104

\* the Go runtime's allocation size classes, its largest small size, its
\* page size, and the capacity from which growslice stops doubling
SizeClasses ==
    <<8, 16, 24, 32, 48, 64, 80, 96, 112, 128, 144, 160, 176, 192, 208, 224,
      240, 256, 288, 320, 352, 384, 416, 448, 480, 512, 576, 640, 704, 768,
      896, 1024, 1152, 1280, 1408, 1536, 1792, 2048, 2304, 2688, 3072, 3200,
      3456, 4096, 4864, 5376, 6144, 6528, 6784, 6912, 8192, 9472, 9728,
      10240, 10880, 12288, 13568, 14336, 16384, 18432, 19072, 20480, 21760,
      24576, 27264, 28672, 32768>>
MaxSmallSize == 32768
PageSize == 8192
GrowThreshold == 256

\* the bytes the allocator hands out for a request of n bytes
RoundUpSize(n) ==
    IF n <= MaxSmallSize
    THEN SizeClasses[CHOOSE i \in 1..Len(SizeClasses) :
                        /\ SizeClasses[i] >= n
                        /\ \A j \in 1..(i - 1) : SizeClasses[j] < n]
    ELSE ((n + PageSize - 1) \div PageSize) * PageSize

\* runtime.growslice for one more element on a full slice of capacity c:
\* double below the threshold, a quarter more (and three quarters of the
\* threshold) from it on, then up to what the rounded allocation holds
GrowCap(c) ==
    LET newcap == IF c + 1 > 2 * c THEN c + 1
                  ELSE IF c < GrowThreshold THEN 2 * c
                  ELSE c + ((c + 3 * GrowThreshold) \div 4)
    IN  RoundUpSize(newcap * ElemSize) \div ElemSize

\* append(s, x) on heap h: in place while the capacity lasts, otherwise into
\* a new array of the capacity growslice gives
AppendSlice(h, s, x) ==
    IF s.len < s.cap
    THEN [heap  |-> [h EXCEPT ![s.arr][s.len + 1] = x],
          slice |-> [s EXCEPT !.len = s.len + 1]]
    ELSE [heap  |-> Append(h, [i \in 1..GrowCap(s.cap) |->
                                 IF i <= s.len THEN h[s.arr][i]
                                 ELSE IF i = s.len + 1 THEN x ELSE ZeroMail]),
          slice |-> [arr |-> Len(h) + 1, len |-> s.len + 1,
                     cap |-> GrowCap(s.cap)]]

\* s[:i]
SliceTo(s, i) == [s EXCEPT !.len = i]

\* the elements a slice header denotes on heap h
Elems(h, s) == [i \in 1..s.len |-> h[s.arr][i]]

(* ------------------------------- state --------------------------------- *)
VARIABLES
    mailBox,    \* var mailBox: key -> slice header (absent keys are not in DOMAIN)
    heap,       \* backing arrays of the mailbox slices
    mu,         \* var mu sync.RWMutex: [writer, readers]
    config,     \* var config Config
    env,        \* the value os.Getenv gives for ALLOWED_DOMAINS ("" when unset)
    mpc,        \* position of main
    clock,      \* number of time.Now() readings taken by handler so far
    hpc,        \* position of each SMTP session goroutine in handler
    content,    \* handler's local content
    gpc,        \* position of each HTTP request goroutine in handleGetMail
    mailHead,   \* handleGetMail's local mailHead
    mails,      \* handleGetMail's local mails
    tmpMail,    \* handleGetMail's local tmpMail
    spc,        \* position of the scheduler goroutine
    now,        \* the wall clock in ticks; day d begins at d * DayLen
    timerAt,    \* when the timer of line 189 fires
    tickerAt,   \* when the ticker of line 182 ticks next
    tickPending, \* ticker.C holds a tick not yet received
    nAppends,   \* SMTP sessions handled so far
    nGets,      \* GET /getMail requests begun so far
    nClears,    \* purge task firings so far
    req,        \* history: each goroutine's current request (see NewReq)
    seen,       \* history: the newest record of the key at the lookup
    appended,   \* history: the records appended, in the order of line 92
    replies,    \* history: the responses of GET /getMail sent so far
    purged,     \* history: how many of appended preceded the latest clear
    fireLog,    \* history: when, and by which channel, task() was called
    mixed       \* history: the keys that had an append after a retrieval of
                \* the key began, or a clear after an append to the key

storeVars == <<mailBox, heap>>
handlerVars == <<hpc, content, clock, nAppends>>
getterVars == <<gpc, mailHead, mails, tmpMail, seen, req, nGets>>
hist == <<appended, replies, purged, mixed>>
schedVars == <<spc, nClears, now, timerAt, tickerAt, tickPending, fireLog>>
bootVars == <<config, env, mpc>>
vars == <<mailBox, heap, mu, config, env, mpc, clock, hpc, content, gpc,
          mailHead, mails, tmpMail, spc, now, timerAt, tickerAt, tickPending, nAppends,
          nGets, nClears, req, seen, appended, replies, purged, mixed,
          fireLog>>

EmptyMap == [k \in {} |-> NoSlice]
NoTime == 0 - 1

\* a request as the history keeps it: its number in the order the requests
\* began, and how many purged appends preceded it
NewReq == [n |-> nGets + 1, purged |-> purged]
NoReq == [n |-> 0, purged |-> 0]

\* initConfig, lines 44-53: AllowedDomains from the environment text e (the
\* ports and the TLS paths play no part in what the model covers)
initConfig(e) == [AllowedDomains |-> Split(e, ",")]

\* the zero value of Config
ZeroConfig == [AllowedDomains |-> <<>>]

\* a check that looks at the length of the list only
ConfigFatalLenOnly(cfg) == Len(cfg.AllowedDomains) = 0

\* line 55: the condition under which initConfig calls log.Fatal
ConfigFatal(cfg) ==
    Len(cfg.AllowedDomains) = 0 \/ cfg.AllowedDomains[1] = <<>>

\* the components main has started: the scheduler from line 216 on, the HTTP
\* server from line 219 on, the SMTP server from line 222 on
SchedUp == mpc \in {"http", "smtp", "serving"}
HTTPUp == mpc \in {"smtp", "serving"}
SMTPUp == mpc = "serving"

\* the records of key k as the map and the heap give them (absent = empty)
Box(k) == IF k \in DOMAIN mailBox THEN Elems(heap, mailBox[k]) ELSE <<>>

\* the package variables and the goroutines before anything has run
StoreInit ==
    /\ timerAt = NoTime
    /\ tickPending = FALSE
    /\ fireLog = <<>>
    /\ mailBox = EmptyMap
    /\ heap = <<>>
    /\ mu = [writer |-> NoProc, readers |-> {}]
    /\ clock = 0
    /\ hpc = [p \in Handlers |-> "idle"]
    /\ content = [p \in Handlers |-> NoMail]
    /\ gpc = [p \in Getters |-> "idle"]
    /\ mailHead = [p \in Getters |-> <<>>]
    /\ mails = [p \in Getters |-> NoSlice]
    /\ tmpMail = [p \in Getters |-> NoMail]
    /\ nAppends = 0
    /\ nGets = 0
    /\ nClears = 0
    /\ req = [p \in Getters |-> NoReq]
    /\ seen = [p \in Getters |-> NoMail]
    /\ appended = <<>>
    /\ replies = {}
    /\ purged = 0
    /\ mixed = {}

\* the state after main has loaded the configuration, has started its
\* servers, and scheduleDailyMidnightTask has created its ticker at time
\* start
InitAt(start) ==
    /\ StoreInit
    /\ now = start
    /\ tickerAt = start + DayLen
    /\ spc = "loop"
    /\ env = RunEnv
    /\ config = initConfig(RunEnv)
    /\ mpc = "serving"

\* the process starts at midnight of day 0, the start at which the timer and
\* the ticker fall due together and either of them can bring the purge about
Init == InitAt(0)

\* the process starts at any time of day 0
SchedInit == \E start \in 0..(DayLen - 1) : InitAt(start)

\* the process as the operating system starts it: main has yet to run, and
\* ALLOWED_DOMAINS holds any of the texts of Envs
BootInit ==
    /\ StoreInit
    /\ now = 0
    /\ tickerAt = NoTime
    /\ spc = "unstarted"
    /\ env \in Envs
    /\ config = ZeroConfig
    /\ mpc = "initConfig"

(* ------------------------------ sync.RWMutex --------------------------- *)
\* mu.Lock() has two moments: the caller becomes the pending writer (from then
\* on new RLock calls block), and it proceeds once the readers have left
LockAnnounce(p) ==
    /\ mu.writer = NoProc
    /\ mu' = [mu EXCEPT !.writer = p]

\* a Lock that does not wait for the readers to leave
LockAcquiredIgnoresReaders(p) == mu.writer = p

LockAcquired(p) ==
    /\ mu.writer = p
    /\ mu.readers = {}

Unlock(p) ==
    /\ mu.writer = p
    /\ mu' = [mu EXCEPT !.writer = NoProc]

RLock(p) ==
    /\ mu.writer = NoProc
    /\ mu' = [mu EXCEPT !.readers = @ \cup {p}]

RUnlock(p) ==
    /\ p \in mu.readers
    /\ mu' = [mu EXCEPT !.readers = @ \ {p}]

\* a response of GET /getMail as the history keeps it: the request, its key,
\* the status, the body, the record the body was taken from, and the newest
\* record of the key at the lookup
Reply(r, key, status, body, rec, saw) ==
    [n |-> r.n, purged |-> r.purged, key |-> key,
     status |-> status, body |-> body, rec |-> rec, saw |-> saw]

\* a retrieval of key k has begun (it is in progress or has been answered)
RetrievalBegun(k) ==
    \/ \E p \in Getters : gpc[p] # "idle" /\ mailHead[p] = k
    \/ \E r \in replies : r.key = k

(* ------------------------- handler (SMTP session) ---------------------- *)
\* the record handler builds from a session (lines 69-84)
MakeContent(rcpt, sender, subject, text, html, stamp) ==
    [from        |-> Trim(AddrString(sender), {"<", ">"}),
     to          |-> Trim(AddrString(rcpt), {"<", ">"}),
     title       |-> subject,
     TextContent |-> text,
     HtmlContent |-> html,
     receivedAt  |-> stamp]

\* an append that makes a fresh slice whether or not the key exists
AppendToBoxAlwaysMakes(mb, h, c) ==
    LET made == MakeSlice(h, InitialCap)
        app  == AppendSlice(made.heap, made.slice, c)
    IN  [mailBox |-> (c.to :> app.slice) @@ mb, heap |-> app.heap]

\* lines 89-92: the map and the heap after appending c under key c.to
AppendToBox(mb, h, c) ==
    LET made == IF c.to \in DOMAIN mb
                THEN [heap |-> h, slice |-> mb[c.to]]
                ELSE MakeSlice(h, InitialCap)
        app  == AppendSlice(made.heap, made.slice, c)
    IN  [mailBox |-> (c.to :> app.slice) @@ mb, heap |-> app.heap]

\* a session reaches handler: lines 69-84. The server configuration of
\* startSMTPServer names no recipient filter, so any recipient arrives.
HandlerStart(p) ==
    /\ SMTPUp
    /\ hpc[p] = "idle"
    /\ nAppends < MaxAppends
    /\ nAppends' = nAppends + 1
    /\ \E rcpt \in Recipients, sender \in Senders, subject \in Subjects,
          text \in TextBodies, html \in HtmlBodies, parsed \in BOOLEAN :
          IF parsed
          THEN /\ clock' = clock + 1
               /\ content' = [content EXCEPT ![p] =
                     MakeContent(rcpt, sender, subject, text, html, clock + 1)]
               /\ hpc' = [hpc EXCEPT ![p] = "lock"]
          ELSE /\ hpc' = [hpc EXCEPT ![p] = "returnErr"]
               /\ UNCHANGED <<clock, content>>
    /\ UNCHANGED <<storeVars, mu, bootVars, getterVars, schedVars, hist>>

\* an error path that stores an empty record before it returns
HandlerReturnErrStores(p) ==
    /\ hpc[p] = "returnErr"
    /\ LET r == AppendToBox(mailBox, heap, ZeroMail)
       IN  /\ mailBox' = r.mailBox
           /\ heap' = r.heap
    /\ hpc' = [hpc EXCEPT ![p] = "idle"]
    /\ UNCHANGED <<mu, bootVars, content, clock, nAppends,
                   getterVars, schedVars, hist>>

\* lines 73-74: the parse error goes back to the transport layer
HandlerReturnErr(p) ==
    /\ hpc[p] = "returnErr"
    /\ hpc' = [hpc EXCEPT ![p] = "idle"]
    /\ UNCHANGED <<storeVars, mu, bootVars, content, clock, nAppends,
                   getterVars, schedVars, hist>>

\* line 86, mu.Lock() called
HandlerLock(p) ==
    /\ hpc[p] = "lock"
    /\ LockAnnounce(p)
    /\ hpc' = [hpc EXCEPT ![p] = "lockWait"]
    /\ UNCHANGED <<storeVars, bootVars, content, clock, nAppends,
                   getterVars, schedVars, hist>>

\* line 86, mu.Lock() returns
HandlerLocked(p) ==
    /\ hpc[p] = "lockWait"
    /\ LockAcquired(p)
    /\ hpc' = [hpc EXCEPT ![p] = "append"]
    /\ UNCHANGED <<storeVars, mu, bootVars, content, clock, nAppends,
                   getterVars, schedVars, hist>>

\* lines 89-92
HandlerAppend(p) ==
    /\ hpc[p] = "append"
    /\ LET r == AppendToBox(mailBox, heap, content[p])
       IN  /\ mailBox' = r.mailBox
           /\ heap' = r.heap
    /\ appended' = Append(appended, content[p])
    /\ mixed' = IF RetrievalBegun(content[p].to)
                THEN mixed \cup {content[p].to} ELSE mixed
    /\ hpc' = [hpc EXCEPT ![p] = "return"]
    /\ UNCHANGED <<mu, bootVars, content, clock, nAppends, getterVars,
                   schedVars, replies, purged>>

\* a handler that returns without releasing mu
HandlerReturnKeepsLock(p) ==
    /\ hpc[p] = "return"
    /\ content' = [content EXCEPT ![p] = NoMail]
    /\ hpc' = [hpc EXCEPT ![p] = "idle"]
    /\ UNCHANGED <<storeVars, mu, bootVars, clock, nAppends, getterVars,
                   schedVars, hist>>

\* lines 94-95 and the deferred mu.Unlock(): handler returns nil
HandlerReturn(p) ==
    /\ hpc[p] = "return"
    /\ Unlock(p)
    /\ content' = [content EXCEPT ![p] = NoMail]
    /\ hpc' = [hpc EXCEPT ![p] = "idle"]
    /\ UNCHANGED <<storeVars, bootVars, clock, nAppends, getterVars, schedVars,
                   hist>>

(* --------------------- handleGetMail (HTTP request) -------------------- *)
\* the newest record of a mailbox given as a sequence, NoMail if it has none
Newest(box) == IF box = <<>> THEN NoMail ELSE box[Len(box)]

\* line 157: the lookup found nothing to return
LookupEmpty(mb, k) == k \notin DOMAIN mb \/ mb[k].len = 0

\* a retrieval that takes the oldest record instead of the newest
LastOfOldest(h, s) == h[s.arr][1]

\* lines 163-164: tmpMail := mails[len(mails)-1]
LastOf(h, s) == h[s.arr][s.len]

\* a removal that stores the slice back whole
RemoveLastKeepsAll(mb, k, s) == (k :> s) @@ mb

\* line 168: mailBox[mailHead] = mails[:lastIndex]
RemoveLast(mb, k, s) == (k :> SliceTo(s, s.len - 1)) @@ mb

\* lines 171-178: the body of the 200 response
MailBody(m) == [from |-> m.from, title |-> m.title,
                TextContent |-> m.TextContent, HtmlContent |-> m.HtmlContent]

\* line 159: the body of the 201 response (the fixed "no mail" text)
NoMailBody == "no mail"

\* lines 153-155: a request arrives and takes the read lock
GetRLock(p) ==
    /\ HTTPUp
    /\ gpc[p] = "idle"
    /\ nGets < MaxGets
    /\ nGets' = nGets + 1
    /\ req' = [req EXCEPT ![p] = NewReq]
    /\ \E k \in GetKeys : mailHead' = [mailHead EXCEPT ![p] = k]
    /\ RLock(p)
    /\ gpc' = [gpc EXCEPT ![p] = "lookup"]
    /\ UNCHANGED <<storeVars, bootVars, handlerVars, mails, tmpMail, seen,
                   schedVars, hist>>

\* lines 156-157 and 163-164
GetLookup(p) ==
    /\ gpc[p] = "lookup"
    /\ seen' = [seen EXCEPT ![p] = Newest(Box(mailHead[p]))]
    /\ IF LookupEmpty(mailBox, mailHead[p])
       THEN /\ gpc' = [gpc EXCEPT ![p] = "runlockEmpty"]
            /\ UNCHANGED <<mails, tmpMail>>
       ELSE /\ mails' = [mails EXCEPT ![p] = mailBox[mailHead[p]]]
            /\ tmpMail' = [tmpMail EXCEPT ![p] =
                             LastOf(heap, mailBox[mailHead[p]])]
            /\ gpc' = [gpc EXCEPT ![p] = "runlock"]
    /\ UNCHANGED <<storeVars, mu, bootVars, handlerVars, mailHead, req, nGets,
                   schedVars, hist>>

\* an empty path that also drops the key from the map
GetRUnlockEmptyDeletesKey(p) ==
    /\ gpc[p] = "runlockEmpty"
    /\ RUnlock(p)
    /\ mailBox' = [k \in DOMAIN mailBox \ {mailHead[p]} |-> mailBox[k]]
    /\ gpc' = [gpc EXCEPT ![p] = "reply201"]
    /\ UNCHANGED <<heap, bootVars, handlerVars, mailHead, mails, tmpMail,
                   seen, req, nGets, schedVars, hist>>

\* an empty path that answers before it releases the read lock
GetRUnlockEmptyKeepsLock(p) ==
    /\ gpc[p] = "runlockEmpty"
    /\ gpc' = [gpc EXCEPT ![p] = "reply201"]
    /\ UNCHANGED <<storeVars, mu, bootVars, handlerVars, mailHead, mails,
                   tmpMail, seen, req, nGets, schedVars, hist>>

\* line 158
GetRUnlockEmpty(p) ==
    /\ gpc[p] = "runlockEmpty"
    /\ RUnlock(p)
    /\ gpc' = [gpc EXCEPT ![p] = "reply201"]
    /\ UNCHANGED <<storeVars, bootVars, handlerVars, mailHead, mails, tmpMail,
                   seen, req, nGets, schedVars, hist>>

\* lines 159-160
GetReply201(p) ==
    /\ gpc[p] = "reply201"
    /\ replies' = replies \cup
          {Reply(req[p], mailHead[p], 201, NoMailBody, NoMail, seen[p])}
    /\ gpc' = [gpc EXCEPT ![p] = "idle"]
    /\ mailHead' = [mailHead EXCEPT ![p] = <<>>]
    /\ seen' = [seen EXCEPT ![p] = NoMail]
    /\ req' = [req EXCEPT ![p] = NoReq]
    /\ UNCHANGED <<storeVars, mu, bootVars, handlerVars, mails, tmpMail, nGets,
                   schedVars, appended, purged, mixed>>

\* line 165
GetRUnlock(p) ==
    /\ gpc[p] = "runlock"
    /\ RUnlock(p)
    /\ gpc' = [gpc EXCEPT ![p] = "lock"]
    /\ UNCHANGED <<storeVars, bootVars, handlerVars, mailHead, mails, tmpMail,
                   seen, req, nGets, schedVars, hist>>

\* line 167, mu.Lock() called
GetLock(p) ==
    /\ gpc[p] = "lock"
    /\ LockAnnounce(p)
    /\ gpc' = [gpc EXCEPT ![p] = "lockWait"]
    /\ UNCHANGED <<storeVars, bootVars, handlerVars, mailHead, mails, tmpMail,
                   seen, req, nGets, schedVars, hist>>

\* line 167, mu.Lock() returns
GetLocked(p) ==
    /\ gpc[p] = "lockWait"
    /\ LockAcquired(p)
    /\ gpc' = [gpc EXCEPT ![p] = "remove"]
    /\ UNCHANGED <<storeVars, mu, bootVars, handlerVars, mailHead, mails,
                   tmpMail, seen, req, nGets, schedVars, hist>>

\* line 168
GetRemove(p) ==
    /\ gpc[p] = "remove"
    /\ mailBox' = RemoveLast(mailBox, mailHead[p], mails[p])
    /\ gpc' = [gpc EXCEPT ![p] = "unlock"]
    /\ UNCHANGED <<heap, mu, bootVars, handlerVars, mailHead, mails, tmpMail,
                   seen, req, nGets, schedVars, hist>>

\* line 169
GetUnlock(p) ==
    /\ gpc[p] = "unlock"
    /\ Unlock(p)
    /\ gpc' = [gpc EXCEPT ![p] = "reply200"]
    /\ UNCHANGED <<storeVars, bootVars, handlerVars, mailHead, mails, tmpMail,
                   seen, req, nGets, schedVars, hist>>

\* lines 171-178
GetReply200(p) ==
    /\ gpc[p] = "reply200"
    /\ replies' = replies \cup
          {Reply(req[p], mailHead[p], 200, MailBody(tmpMail[p]), tmpMail[p],
                 seen[p])}
    /\ gpc' = [gpc EXCEPT ![p] = "idle"]
    /\ mailHead' = [mailHead EXCEPT ![p] = <<>>]
    /\ mails' = [mails EXCEPT ![p] = NoSlice]
    /\ tmpMail' = [tmpMail EXCEPT ![p] = NoMail]
    /\ seen' = [seen EXCEPT ![p] = NoMail]
    /\ req' = [req EXCEPT ![p] = NoReq]
    /\ UNCHANGED <<storeVars, mu, bootVars, handlerVars, nGets, schedVars,
                   appended, purged, mixed>>

(* -------------------- scheduleDailyMidnightTask ------------------------ *)
timeVars == <<now, timerAt, tickerAt, tickPending, fireLog>>

\* line 186: midnight of the day after t
NextMidnight(t) == ((t \div DayLen) + 1) * DayLen

\* lines 185-189: a new timer for the next midnight
SchedArm ==
    /\ spc = "loop"
    /\ timerAt' = NextMidnight(now)
    /\ spc' = "select"
    /\ UNCHANGED <<storeVars, mu, bootVars, handlerVars, getterVars, nClears,
                   now, tickerAt, tickPending, fireLog, hist>>

\* lines 190-192: timer.C delivers and task() is called
SchedTimerFire ==
    /\ spc = "select"
    /\ now >= timerAt
    /\ fireLog' = Append(fireLog, [at |-> now, by |-> "timer"])
    /\ nClears' = nClears + 1
    /\ spc' = "lock"
    /\ UNCHANGED <<storeVars, mu, bootVars, handlerVars, getterVars, now,
                   timerAt, tickerAt, tickPending, hist>>

\* lines 193-195: ticker.C delivers and task() is called
SchedTickerFire ==
    /\ spc = "select"
    /\ tickPending
    /\ tickPending' = FALSE
    /\ fireLog' = Append(fireLog, [at |-> now, by |-> "ticker"])
    /\ nClears' = nClears + 1
    /\ spc' = "lock"
    /\ UNCHANGED <<storeVars, mu, bootVars, handlerVars, getterVars, now,
                   timerAt, tickerAt, hist>>

\* the ticker of line 182, once time.NewTicker has made it: every 24 hours a
\* tick goes into ticker.C, whose buffer holds one tick (a tick that finds
\* it full is dropped)
TickerTick ==
    /\ tickerAt # NoTime
    /\ now >= tickerAt
    /\ tickPending' = TRUE
    /\ tickerAt' = tickerAt + DayLen
    /\ UNCHANGED <<storeVars, mu, bootVars, handlerVars, getterVars, spc,
                   nClears, now, timerAt, fireLog, hist>>

\* the clock advances by one tick. The ticker and the scheduler are prompt:
\* time passes only while the scheduler waits in select with nothing to
\* receive and no tick is due.
Tick ==
    /\ spc = "select"
    /\ now < timerAt
    /\ ~tickPending
    /\ now < tickerAt
    /\ now < MaxDays * DayLen
    /\ now' = now + 1
    /\ UNCHANGED <<storeVars, mu, bootVars, handlerVars, getterVars, spc,
                   nClears, timerAt, tickerAt, tickPending, fireLog, hist>>

(* ------------------------ clearMailBox (the purge) --------------------- *)
\* line 202, mu.Lock() called
ClearLock ==
    /\ spc = "lock"
    /\ LockAnnounce(Sched)
    /\ spc' = "lockWait"
    /\ UNCHANGED <<storeVars, bootVars, handlerVars, getterVars, nClears,
                   timeVars, hist>>

\* line 202, mu.Lock() returns
ClearLocked ==
    /\ spc = "lockWait"
    /\ LockAcquired(Sched)
    /\ spc' = "replace"
    /\ UNCHANGED <<storeVars, mu, bootVars, handlerVars, getterVars, nClears,
                   timeVars, hist>>

\* line 204
ClearReplace ==
    /\ spc = "replace"
    /\ mailBox' = EmptyMap
    /\ purged' = Len(appended)
    /\ mixed' = mixed \cup {appended[i].to : i \in 1..Len(appended)}
    /\ spc' = "return"
    /\ UNCHANGED <<heap, mu, bootVars, handlerVars, getterVars, nClears,
                   timeVars, appended, replies>>

\* a scheduler that runs the task once and ends
ClearReturnStops ==
    /\ spc = "return"
    /\ Unlock(Sched)
    /\ spc' = "done"
    /\ UNCHANGED <<storeVars, bootVars, handlerVars, getterVars, nClears,
                   timeVars, hist>>

\* lines 205-206 and the deferred mu.Unlock(); the scheduler loops
ClearReturn ==
    /\ spc = "return"
    /\ Unlock(Sched)
    /\ spc' = "loop"
    /\ UNCHANGED <<storeVars, bootVars, handlerVars, getterVars, nClears,
                   timeVars, hist>>

(* --------------------------------- main -------------------------------- *)
\* line 210: config = initConfig(). log.Fatal (line 56) ends the process
\* inside initConfig, before the assignment
MainInitConfig ==
    /\ mpc = "initConfig"
    /\ IF ConfigFatal(initConfig(env))
       THEN mpc' = "exited" /\ config' = config
       ELSE mpc' = "schedule" /\ config' = initConfig(env)
    /\ UNCHANGED <<storeVars, mu, env, handlerVars, getterVars, schedVars,
                   hist>>

\* line 216: scheduleDailyMidnightTask creates the ticker (line 182) and
\* starts the scheduler goroutine
MainSchedule ==
    /\ mpc = "schedule"
    /\ tickerAt' = now + DayLen
    /\ spc' = "loop"
    /\ mpc' = "http"
    /\ UNCHANGED <<storeVars, mu, config, env, handlerVars, getterVars,
                   nClears, now, timerAt, tickPending, fireLog, hist>>

\* line 219: go startHTTPServer()
MainHTTP ==
    /\ mpc = "http"
    /\ mpc' = "smtp"
    /\ UNCHANGED <<storeVars, mu, config, env, handlerVars, getterVars,
                   schedVars, hist>>

\* line 222: startSMTPServer() listens and serves
MainSMTP ==
    /\ mpc = "smtp"
    /\ mpc' = "serving"
    /\ UNCHANGED <<storeVars, mu, config, env, handlerVars, getterVars,
                   schedVars, hist>>

\* lines 222-224: startSMTPServer() returns an error and log.Fatalf ends
\* the process
MainSMTPFail ==
    /\ mpc \in {"smtp", "serving"}
    /\ mpc' = "exited"
    /\ UNCHANGED <<storeVars, mu, config, env, handlerVars, getterVars,
                   schedVars, hist>>

(* --------------------------- specification ----------------------------- *)
\* the store under concurrent sessions and requests, with the scheduler
\* running against the clock until the purge has been called MaxClears times
Next ==
    \/ \E p \in Handlers : HandlerStart(p)
    \/ \E p \in Handlers : HandlerReturnErr(p)
    \/ \E p \in Handlers : HandlerLock(p)
    \/ \E p \in Handlers : HandlerLocked(p)
    \/ \E p \in Handlers : HandlerAppend(p)
    \/ \E p \in Handlers : HandlerReturn(p)
    \/ \E p \in Getters : nGets < StoreGets /\ GetRLock(p)
    \/ \E p \in Getters : GetLookup(p)
    \/ \E p \in Getters : GetRUnlockEmpty(p)
    \/ \E p \in Getters : GetReply201(p)
    \/ \E p \in Getters : GetRUnlock(p)
    \/ \E p \in Getters : GetLock(p)
    \/ \E p \in Getters : GetLocked(p)
    \/ \E p \in Getters : GetRemove(p)
    \/ \E p \in Getters : GetUnlock(p)
    \/ \E p \in Getters : GetReply200(p)
    \/ SchedArm
    \/ nClears < MaxClears /\ SchedTimerFire
    \/ nClears < MaxClears /\ SchedTickerFire
    \/ TickerTick
    \/ Tick
    \/ ClearLock
    \/ ClearLocked
    \/ ClearReplace
    \/ ClearReturn

Spec == Init /\ [][Next]_vars

\* the scheduler against the clock, with SMTP sessions filling the store
SchedNext ==
    \/ \E p \in Handlers : HandlerStart(p)
    \/ \E p \in Handlers : HandlerReturnErr(p)
    \/ \E p \in Handlers : HandlerLock(p)
    \/ \E p \in Handlers : HandlerLocked(p)
    \/ \E p \in Handlers : HandlerAppend(p)
    \/ \E p \in Handlers : HandlerReturn(p)
    \/ SchedArm
    \/ SchedTimerFire
    \/ SchedTickerFire
    \/ TickerTick
    \/ Tick
    \/ ClearLock
    \/ ClearLocked
    \/ ClearReplace
    \/ ClearReturn

SchedSpec == SchedInit /\ [][SchedNext]_vars

\* the steps of the scheduler goroutine (lines 184-197 and clearMailBox)
SchedStep ==
    \/ SchedArm
    \/ SchedTimerFire
    \/ SchedTickerFire
    \/ ClearLock
    \/ ClearLocked
    \/ ClearReplace
    \/ ClearReturn

\* the steps of the SMTP sessions that have begun
HandlerStep ==
    \E p \in Handlers :
        \/ HandlerReturnErr(p)
        \/ HandlerLock(p)
        \/ HandlerLocked(p)
        \/ HandlerAppend(p)
        \/ HandlerReturn(p)

\* the timed specification under fair scheduling: the Go scheduler runs
\* every goroutine that can run, the clock advances and the runtime
\* delivers the ticks that are due
FairSchedSpec ==
    /\ SchedSpec
    /\ WF_vars(SchedStep)
    /\ WF_vars(HandlerStep)
    /\ WF_vars(Tick)
    /\ WF_vars(TickerTick)

\* the steps of the HTTP requests that have begun
GetterStep ==
    \E p \in Getters :
        \/ GetLookup(p)
        \/ GetRUnlockEmpty(p)
        \/ GetReply201(p)
        \/ GetRUnlock(p)
        \/ GetLock(p)
        \/ GetLocked(p)
        \/ GetRemove(p)
        \/ GetUnlock(p)
        \/ GetReply200(p)

\* the steps of a purge that has begun
ClearStep ==
    \/ ClearLock
    \/ ClearLocked
    \/ ClearReplace
    \/ ClearReturn

\* the store specification under fair scheduling: the Go scheduler runs
\* every goroutine that can run, and a goroutine blocked on mu runs once
\* the lock is handed to it
\* (with fewer sessions and requests than Spec runs, see LiveAppends)
FairSpec ==
    /\ Init
    /\ [][Next /\ nAppends' <= LiveAppends /\ nGets' <= LiveGets]_vars
    /\ WF_vars(HandlerStep)
    /\ WF_vars(GetterStep)
    /\ WF_vars(ClearStep)

\* the process from its start: main, then the scheduler, the HTTP requests
\* and the SMTP sessions, each from the line of main that starts it, for as
\* long as the process lives
BootNext ==
    \/ MainInitConfig
    \/ MainSchedule
    \/ MainHTTP
    \/ MainSMTP
    \/ MainSMTPFail
    \/ \E p \in Handlers :
           mpc # "exited" /\ nAppends < BootAppends /\ HandlerStart(p)
    \/ \E p \in Handlers : mpc # "exited" /\ HandlerReturnErr(p)
    \/ \E p \in Handlers : mpc # "exited" /\ HandlerLock(p)
    \/ \E p \in Handlers : mpc # "exited" /\ HandlerLocked(p)
    \/ \E p \in Handlers : mpc # "exited" /\ HandlerAppend(p)
    \/ \E p \in Handlers : mpc # "exited" /\ HandlerReturn(p)
    \/ \E p \in Getters : mpc # "exited" /\ nGets < BootGets /\ GetRLock(p)
    \/ \E p \in Getters : mpc # "exited" /\ GetLookup(p)
    \/ \E p \in Getters : mpc # "exited" /\ GetRUnlockEmpty(p)
    \/ \E p \in Getters : mpc # "exited" /\ GetReply201(p)
    \/ \E p \in Getters : mpc # "exited" /\ GetRUnlock(p)
    \/ \E p \in Getters : mpc # "exited" /\ GetLock(p)
    \/ \E p \in Getters : mpc # "exited" /\ GetLocked(p)
    \/ \E p \in Getters : mpc # "exited" /\ GetRemove(p)
    \/ \E p \in Getters : mpc # "exited" /\ GetUnlock(p)
    \/ \E p \in Getters : mpc # "exited" /\ GetReply200(p)
    \/ mpc # "exited" /\ SchedArm
    \/ mpc # "exited" /\ nClears < MaxClears /\ SchedTimerFire
    \/ mpc # "exited" /\ nClears < MaxClears /\ SchedTickerFire
    \/ mpc # "exited" /\ TickerTick
    \/ mpc # "exited" /\ Tick
    \/ mpc # "exited" /\ ClearLock
    \/ mpc # "exited" /\ ClearLocked
    \/ mpc # "exited" /\ ClearReplace
    \/ mpc # "exited" /\ ClearReturn

BootSpec == BootInit /\ [][BootNext]_vars

\* the store operations run one after another: a session, a request or a
\* purge begins only when no other is in progress (the scheduler is in its
\* loop or waits in select)
Quiet ==
    /\ \A p \in Handlers : hpc[p] = "idle"
    /\ \A p \in Getters : gpc[p] = "idle"
    /\ spc \in {"loop", "select"}

SeqNext ==
    \/ \E p \in Handlers : Quiet /\ HandlerStart(p)
    \/ \E p \in Handlers : HandlerReturnErr(p)
    \/ \E p \in Handlers : HandlerLock(p)
    \/ \E p \in Handlers : HandlerLocked(p)
    \/ \E p \in Handlers : HandlerAppend(p)
    \/ \E p \in Handlers : HandlerReturn(p)
    \/ \E p \in Getters : Quiet /\ GetRLock(p)
    \/ \E p \in Getters : GetLookup(p)
    \/ \E p \in Getters : GetRUnlockEmpty(p)
    \/ \E p \in Getters : GetReply201(p)
    \/ \E p \in Getters : GetRUnlock(p)
    \/ \E p \in Getters : GetLock(p)
    \/ \E p \in Getters : GetLocked(p)
    \/ \E p \in Getters : GetRemove(p)
    \/ \E p \in Getters : GetUnlock(p)
    \/ \E p \in Getters : GetReply200(p)
    \/ SchedArm
    \/ Quiet /\ nClears < MaxClears /\ SchedTimerFire
    \/ Quiet /\ nClears < MaxClears /\ SchedTickerFire
    \/ TickerTick
    \/ Tick
    \/ ClearLock
    \/ ClearLocked
    \/ ClearReplace
    \/ ClearReturn

SeqSpec == Init /\ [][SeqNext]_vars

(* ------------------------------ properties ----------------------------- *)
Range(s) == {s[i] : i \in 1..Len(s)}

\* the position of the first c in s, 0 if there is none
RECURSIVE IndexOf(_, _)
IndexOf(s, c) ==
    IF s = <<>> THEN 0
    ELSE IF Head(s) = c THEN 1
    ELSE LET i == IndexOf(Tail(s), c) IN IF i = 0 THEN 0 ELSE i + 1

\* the text before and after the '@' of an address
LocalPart(addr) == SubSeq(addr, 1, IndexOf(addr, "@") - 1)
DomainPart(addr) == SubSeq(addr, IndexOf(addr, "@") + 1, Len(addr))

\* the appends to key k in the order of line 92
AppendsTo(k) == SelectSeq(appended, LAMBDA m : m.to = k)

\* the records appended before the latest clear
Purged == {appended[i] : i \in 1..purged}

\* a retrieval has taken record m: it has answered with it or is on its way
\* to answering with it
Taken(m) ==
    \/ \E r \in replies : r.status = 200 /\ r.rec = m
    \/ \E p \in Getters : tmpMail[p] = m

\* C1: no record is delivered twice: two 200 responses never carry the same
\* appended record.
NoDoubleDelivery ==
    \A r1, r2 \in replies :
        (r1.status = 200 /\ r2.status = 200 /\ r1.rec = r2.rec) => r1 = r2

\* C2: once Append has returned, the record stays in the mailbox of its key
\* until a PopLatest takes it or a ClearAll discards it.
AppendStaysVisible ==
    \A i \in 1..Len(appended) :
        LET m == appended[i] IN
        (\A p \in Handlers : content[p] # m) =>
            \/ m \in Range(Box(m.to))
            \/ Taken(m)
            \/ i <= purged

\* C3: after ClearAll no record appended before it is in the store or is
\* returned by a PopLatest that began after it, and the allowed domains are
\* what the configuration loaded.
PurgeComplete ==
    /\ \A k \in DOMAIN mailBox : Range(Box(k)) \cap Purged = {}
    /\ \A r \in replies :
           r.status = 200 => r.rec \notin {appended[i] : i \in 1..r.purged}
    /\ config.AllowedDomains = EnvAllowedDomains

\* C5: every record is stored under the local part of its recipient address.
KeyIsLocalPart ==
    \A k \in DOMAIN mailBox :
        \A m \in Range(Box(k)) : k = LocalPart(m.to)

\* C6: every record appended to the store is addressed to an allowed domain.
OnlyAllowedDomains ==
    \A m \in Range(appended) :
        DomainPart(m.to) \in Range(config.AllowedDomains)

\* the responses to retrievals of key k
RepliesOn(k) == {r \in replies : r.key = k}

\* C4: LIFO order. When the records m1..mn of a key were all appended before
\* the first retrieval of the key began, no clear followed them and the
\* operations ran one after another, the j-th retrieval of the key returned
\* m(n+1-j), and every retrieval after the n-th answered "empty".
LIFOOrder ==
    \A k \in GetKeys :
        LET ms == AppendsTo(k) IN
        k \notin mixed =>
            \A r \in RepliesOn(k) :
                LET j == Cardinality({q \in RepliesOn(k) : q.n <= r.n}) IN
                IF j <= Len(ms)
                THEN r.status = 200 /\ r.rec = ms[Len(ms) + 1 - j]
                ELSE r.status = 201

WitnessLIFO ==
    \E k \in GetKeys :
        /\ k \notin mixed
        /\ Len(AppendsTo(k)) >= 2
        /\ Cardinality(RepliesOn(k)) > Len(AppendsTo(k))

\* C7: a retrieval answers 201 with the "no mail" body exactly when the
\* mailbox of the key was absent or empty at the lookup, and otherwise 200
\* with the from, title, TextContent and HtmlContent of the newest record of
\* the key at the lookup (the record it sets out to remove); there is no
\* other outcome.
RetrievalOutcome ==
    \A r \in replies :
        /\ r.status \in {200, 201}
        /\ r.status = 201 <=> r.saw = NoMail
        /\ r.status = 201 => r.body = NoMailBody
        /\ r.status = 200 =>
               /\ r.rec = r.saw
               /\ r.body = [from |-> r.saw.from, title |-> r.saw.title,
                            TextContent |-> r.saw.TextContent,
                            HtmlContent |-> r.saw.HtmlContent]

\* an emptied key answers 201 after having answered 200
WitnessOutcomes ==
    \E r1, r2 \in replies :
        r1.status = 200 /\ r2.status = 201 /\ r2.key = r1.key /\ r1.n < r2.n

\* C8: every step of a retrieval up to and along its "empty" path leaves the
\* map and the backing arrays as they were, and the retrieval is not the
\* writer of the lock before or after the step.
EmptyPopNoEffect ==
    [][\A p \in Getters :
          (gpc'[p] # gpc[p] /\
           (gpc'[p] \in {"lookup", "runlockEmpty", "reply201"} \/
            gpc[p] = "reply201"))
          => /\ mailBox' = mailBox
             /\ heap' = heap
             /\ mu.writer # p
             /\ mu'.writer # p]_vars

\* a retrieval has answered 201 while the store holds mail
WitnessEmptyPop ==
    /\ \E r \in replies : r.status = 201
    /\ \E k \in DOMAIN mailBox : mailBox[k].len > 0

\* the records of key k after a step
BoxNext(k) == IF k \in DOMAIN mailBox' THEN Elems(heap', mailBox'[k]) ELSE <<>>

\* the append step creates the mailbox if absent and makes it its value
\* before the step with the record added last
AppendStep ==
    \A p \in Handlers :
        (hpc[p] = "append" /\ hpc'[p] = "return") =>
            /\ content[p].to \in DOMAIN mailBox'
            /\ BoxNext(content[p].to) = Append(Box(content[p].to), content[p])

\* while no retrieval and no purge has begun, every mailbox is exactly the
\* appends to its key in the order in which they took the lock
AppendsAllKept ==
    (nGets = 0 /\ nClears = 0) =>
        \A k \in GetKeys : Box(k) = AppendsTo(k)

\* C9: Append is atomic and loses nothing: the append step (line 92) creates
\* the mailbox if absent and adds the record last, it is always possible
\* once the lock is held, and racing appends with no retrieval or purge
\* leave every appended record in its mailbox once, in lock order.
AppendAtomic ==
    /\ [][AppendStep]_vars
    /\ [](\A p \in Handlers : hpc[p] = "append" => ENABLED HandlerAppend(p))
    /\ []AppendsAllKept

\* two appends raced on one key and took the lock in the order opposite to
\* that in which their sessions were parsed
WitnessRacingAppends ==
    \E k \in DOMAIN mailBox :
        /\ nGets = 0 /\ nClears = 0
        /\ mailBox[k].len = 2
        /\ Box(k)[1].receivedAt > Box(k)[2].receivedAt

\* the calendar day of time t
DayOf(t) == t \div DayLen

\* C10: the purge runs once per calendar day at local midnight: every call of
\* task() is at a midnight boundary, no day has two of them, and every
\* midnight boundary that has passed since startup has one.
OncePerDayAtMidnight ==
    /\ \A i \in 1..Len(fireLog) : fireLog[i].at % DayLen = 0
    /\ \A i, j \in 1..Len(fireLog) :
           i # j => DayOf(fireLog[i].at) # DayOf(fireLog[j].at)
    /\ \A d \in 1..MaxDays :
           d * DayLen < now => \E i \in 1..Len(fireLog) : fireLog[i].at = d * DayLen

\* a component of the process is running: main has started it, or one of
\* its goroutines is at work
ComponentRunning ==
    \/ SchedUp \/ HTTPUp \/ SMTPUp
    \/ spc # "unstarted"
    \/ \E p \in Handlers : hpc[p] # "idle"
    \/ \E p \in Getters : gpc[p] # "idle"

\* C11: fail-fast configuration. With ALLOWED_DOMAINS unset or empty main
\* never gets past initConfig other than by exiting, so no component starts;
\* whenever a component is running the allowed-domain list has at least one
\* non-empty domain; and once loaded the list never changes.
FailFastConfig ==
    /\ [](env = <<>> => mpc \in {"initConfig", "exited"} /\ ~ComponentRunning)
    /\ [](ComponentRunning =>
             \E i \in 1..Len(config.AllowedDomains) :
                 config.AllowedDomains[i] # <<>>)
    /\ [][mpc # "initConfig" => config' = config]_vars

\* the process serves with a list whose last element is empty, and has
\* stored mail
WitnessFailFast ==
    /\ mpc = "serving"
    /\ config.AllowedDomains = <<<<"x">>, <<>>>>
    /\ appended # <<>>

\* C12: re-validated removal. When a retrieval holds the exclusive lock and
\* is about to remove (line 168), the mailbox of its key is not empty and its
\* last record is the record the retrieval observed and will return.
RemovalRevalidated ==
    \A p \in Getters :
        gpc[p] = "remove" =>
            /\ Box(mailHead[p]) # <<>>
            /\ Newest(Box(mailHead[p])) = tmpMail[p]

\* the goroutines between a return of mu.Lock() and their mu.Unlock()
ExclHolders ==
    {p \in Handlers : hpc[p] \in {"append", "return"}}
    \cup {p \in Getters : gpc[p] \in {"remove", "unlock"}}
    \cup (IF spc \in {"replace", "return"} THEN {Sched} ELSE {})

\* the goroutines between their mu.RLock() and their mu.RUnlock()
SharedHolders ==
    {p \in Getters : gpc[p] \in {"lookup", "runlockEmpty", "runlock"}}

\* goroutine p takes the step
Moved(p) ==
    IF p \in Handlers THEN hpc'[p] # hpc[p]
    ELSE IF p \in Getters THEN gpc'[p] # gpc[p]
    ELSE spc' # spc

\* C13: lock discipline. At most one goroutine holds mu exclusively, and
\* then none holds it shared; the lock's own state agrees with who holds it;
\* and every step that changes the map or a backing array is taken by the
\* goroutine that holds mu exclusively (Append and ClearAll touch the store
\* in no other step).
LockDiscipline ==
    /\ [](/\ Cardinality(ExclHolders) <= 1
          /\ ExclHolders # {} => SharedHolders = {}
          /\ mu.readers = SharedHolders
          /\ \A p \in ExclHolders : mu.writer = p)
    /\ [][(mailBox' # mailBox \/ heap' # heap) =>
             \E p \in ExclHolders : Moved(p)]_vars

\* a retrieval holds mu exclusively for its removal while a session and the
\* purge are about to ask for it
WitnessLockContention ==
    /\ \E p \in Getters : gpc[p] = "remove"
    /\ \E q \in Handlers : hpc[q] = "lock"
    /\ spc = "lock"

\* C14: a simultaneous firing of the timer and the ticker never gives two
\* clears for one boundary: no two calls of task() are made at the same
\* moment.
OneClearPerBoundary ==
    \A i, j \in 1..Len(fireLog) :
        i # j => fireLog[i].at # fireLog[j].at

\* task() has been called at time t
FiredAt(t) == \E i \in 1..Len(fireLog) : fireLog[i].at = t

\* C15: the scheduler has no terminal state. Under fair scheduling every
\* midnight boundary of the run sees a call of task(), none is passed
\* without one, every call replaces the map, and after every clear the
\* scheduler waits again with its timer set to the next midnight.
ClearsForever ==
    /\ \A d \in 1..MaxDays : <>FiredAt(d * DayLen)
    /\ [](\A d \in 1..MaxDays : d * DayLen < now => FiredAt(d * DayLen))
    /\ (spc = "lock") ~> (spc = "return")
    /\ (spc = "return") ~> (spc = "select" /\ timerAt = NextMidnight(now))

\* the scheduler waits for the third midnight after two clears, the first
\* of which discarded mail
WitnessRearmed ==
    /\ spc = "select"
    /\ FiredAt(DayLen) /\ FiredAt(2 * DayLen)
    /\ timerAt = 3 * DayLen
    /\ purged > 0

\* the sessions that have parsed their message and have yet to append
ParsedNotAppended ==
    {p \in Handlers : hpc[p] \in {"lock", "lockWait", "append"}}

\* C16: ingestion is all-or-nothing. A session whose message fails to parse
\* returns the error with the map, the backing arrays, the lock and the
\* appended records untouched by its steps; every session that parsed
\* appends its record exactly once.
IngestAllOrNothing ==
    /\ [][\A p \in Handlers :
             (hpc'[p] # hpc[p] /\ "returnErr" \in {hpc[p], hpc'[p]}) =>
                 /\ mailBox' = mailBox /\ heap' = heap
                 /\ mu' = mu
                 /\ appended' = appended]_vars
    /\ [](\A p \in Handlers :
             hpc[p] = "returnErr" => mu.writer # p /\ content[p] = NoMail)
    /\ [](Len(appended) + Cardinality(ParsedNotAppended) = clock)
    /\ [](\A i, j \in 1..Len(appended) :
             i # j => appended[i] # appended[j])
    /\ [](\A p \in Handlers :
             hpc[p] = "return" =>
                 Cardinality({i \in 1..Len(appended) :
                                 appended[i] = content[p]}) = 1)

\* of two finished sessions one failed to parse and one stored its record
WitnessOneOfTwoStored ==
    /\ \A p \in Handlers : hpc[p] = "idle"
    /\ nAppends = 2
    /\ clock = 1
    /\ Len(appended) = 1

\* goroutine p holds mu neither shared nor exclusively, and has not asked
\* for it
HoldsNothing(p) == p \notin mu.readers /\ mu.writer # p

\* C17: no network or parsing work inside a critical section. A session
\* holds nothing before, while and right after its message is parsed; a
\* request holds nothing while its response is written; and mu is held
\* only between the lock calls and the releases around the map lookup and
\* the map mutations.
NoIOUnderLock ==
    /\ [](\A p \in Handlers :
             hpc[p] \in {"idle", "returnErr", "lock"} => HoldsNothing(p))
    /\ [](\A p \in Getters :
             gpc[p] \in {"idle", "reply201", "reply200"} => HoldsNothing(p))
    /\ [][\A p \in Handlers :
             (hpc[p] = "idle" /\ hpc'[p] # "idle") => mu' = mu]_vars
    /\ [][\A p \in Getters :
             (gpc[p] \in {"reply201", "reply200"} /\ gpc'[p] = "idle") =>
                 mu' = mu]_vars
    /\ [](\A p \in mu.readers :
             p \in Getters /\ gpc[p] \in {"lookup", "runlockEmpty", "runlock"})
    /\ [](\A p \in Handlers :
             mu.writer = p => hpc[p] \in {"lockWait", "append", "return"})
    /\ [](\A p \in Getters :
             mu.writer = p => gpc[p] \in {"lockWait", "remove", "unlock"})
    /\ [](mu.writer = Sched => spc \in {"lockWait", "replace", "return"})

\* a response with mail is being written while a session holds the lock
\* for its append and the other request waits for the lock
WitnessReplyOutsideLock ==
    /\ \E p \in Getters : gpc[p] = "reply200"
    /\ \E q \in Handlers : hpc[q] = "append"
    /\ \E p \in Getters : gpc[p] = "lock"

\* C18: no operation blocks indefinitely. Under fair scheduling every
\* session, request and purge that has begun comes to its end; when none is
\* in progress the lock is free (every acquisition was released, on the
\* empty path too); and while one is in progress some goroutine can step.
AllOperationsComplete ==
    /\ \A p \in Handlers : (hpc[p] # "idle") ~> (hpc[p] = "idle")
    /\ \A p \in Getters : (gpc[p] # "idle") ~> (gpc[p] = "idle")
    /\ (spc \notin {"loop", "select"}) ~> (spc \in {"loop", "select"})
    /\ [](Quiet => mu = [writer |-> NoProc, readers |-> {}])
    /\ [](~Quiet => ENABLED (HandlerStep \/ GetterStep \/ ClearStep))

\* every operation of the run has come to its end after the requests took
\* both the 200 and the 201 path and a purge ran
WitnessAllDone ==
    /\ Quiet
    /\ nAppends = LiveAppends /\ nGets = LiveGets /\ nClears = MaxClears
    /\ \E r \in replies : r.status = 200
    /\ \E r \in replies : r.status = 201

\* the key goroutine p works on: a session's recipient, a request's path
\* parameter
KeyOf(p) ==
    IF p \in Handlers
    THEN (IF content[p] = NoMail THEN <<>> ELSE content[p].to)
    ELSE mailHead[p]

\* the keys whose mailbox a step changes: its records, or its presence in
\* the map
ChangedKeys ==
    {k \in GetKeys \cup DOMAIN mailBox \cup DOMAIN mailBox' :
        \/ BoxNext(k) # Box(k)
        \/ (k \in DOMAIN mailBox') # (k \in DOMAIN mailBox)}

\* C19: cross-key isolation. A step of a session or of a request changes
\* the mailbox of no key other than its own, and a step that changes more
\* than one key is the map replacement of the purge.
KeyIsolation ==
    /\ [][\A p \in Handlers \cup Getters :
             Moved(p) => ChangedKeys \subseteq {KeyOf(p)}]_vars
    /\ [][Cardinality(ChangedKeys) > 1 =>
             spc = "replace" /\ spc' = "return"]_vars

\* a retrieval has emptied the mailbox of one key while another key holds
\* its record
WitnessTwoKeys ==
    \E k1, k2 \in DOMAIN mailBox :
        /\ k1 # k2
        /\ mailBox[k1].len = 0
        /\ mailBox[k2].len = 1
        /\ \E r \in replies : r.status = 200 /\ r.key = k1

\* record m is what a session with inputs of the model delivers: the
\* envelope addresses without their angle brackets, and the parsed subject
\* and bodies
Delivered(m) ==
    /\ \E a \in Senders : m.from = FullAddr(a)
    /\ \E a \in Recipients : m.to = FullAddr(a)
    /\ m.title \in Subjects
    /\ m.TextContent \in TextBodies
    /\ m.HtmlContent \in HtmlBodies

\* C20: no fabricated or misrouted mail. Every record in the mailbox of a
\* key, every record a retrieval of the key has read, and every record a
\* 200 response of the key was built from, was appended under that key; the
\* response carries its fields; and every appended record is what its
\* session delivered.
NoFabricatedMail ==
    /\ \A k \in DOMAIN mailBox :
           Range(Box(k)) \subseteq Range(AppendsTo(k))
    /\ \A p \in Getters :
           tmpMail[p] # NoMail => tmpMail[p] \in Range(AppendsTo(mailHead[p]))
    /\ \A r \in replies :
           r.status = 200 =>
               /\ r.rec \in Range(AppendsTo(r.key))
               /\ r.body.from = r.rec.from
               /\ r.body.title = r.rec.title
               /\ r.body.TextContent = r.rec.TextContent
               /\ r.body.HtmlContent = r.rec.HtmlContent
    /\ \A m \in Range(appended) : Delivered(m)

\* a mailbox shows a record again that a purge had discarded (a removal
\* stored its stale slice back), and a retrieval has answered with mail
\* of that key
WitnessStaleSliceStored ==
    \E k \in DOMAIN mailBox :
        /\ Range(Box(k)) \cap Purged # {}
        /\ \E r \in replies : r.status = 200 /\ r.key = k

====
